---- MODULE Spec2Model ----
(***************************************************************************)
(* Model of scripts/Split_bins2fasta.py: load a bin -> contigs table, then *)
(* stream an assembly FASTA once and fan each record out to the per-bin    *)
(* FASTA files of the bins that own its id.                                *)
(*                                                                         *)
(* Text is modelled at character level: a file is a sequence of            *)
(* one-character strings, a line is such a sequence ending in "\n" (the    *)
(* last line of a file may lack it), a token (bin name, contig id) is a    *)
(* non-empty sequence of non-blank characters.                             *)
(***************************************************************************)
EXTENDS Integers, Sequences, FiniteSets, TLC

\* ------------------------------------------------------------------ bounds

\* Longest assembly file, counted in the chunks of AssemblyChunks.
MaxLines == 3
\* Longest mapping file of SpecLoader, counted in the lines of MapChunks.
MaxMapLines == 3

\* ------------------------------------------------- python text primitives

\* str.isspace() on the characters that occur in the model's files.
IsSpace(c) == c \in {" ", "\t", "\n", "\r"}

RECURSIVE Concat(_)
\* "".join(seqs)
Concat(seqs) == IF seqs = <<>> THEN <<>> ELSE Head(seqs) \o Concat(Tail(seqs))

RECURSIVE UniversalNewlines(_)
\* open(path) reads in text mode with newline=None: "\r\n" and a lone "\r"
\* both reach the program as "\n".
UniversalNewlines(b) ==
  IF b = <<>> THEN <<>>
  ELSE IF Head(b) = "\r"
       THEN IF Len(b) >= 2 /\ b[2] = "\n"
            THEN <<"\n">> \o UniversalNewlines(SubSeq(b, 3, Len(b)))
            ELSE <<"\n">> \o UniversalNewlines(Tail(b))
       ELSE <<Head(b)>> \o UniversalNewlines(Tail(b))

RECURSIVE SplitLinesAcc(_, _, _, _)
SplitLinesAcc(t, i, cur, acc) ==
  IF i > Len(t) THEN (IF cur = <<>> THEN acc ELSE Append(acc, cur))
  ELSE IF t[i] = "\n"
       THEN SplitLinesAcc(t, i + 1, <<>>, Append(acc, Append(cur, t[i])))
       ELSE SplitLinesAcc(t, i + 1, Append(cur, t[i]), acc)

\* `for line in f` over a file opened in text mode: the translated text cut
\* after every "\n", terminators kept.
TextLines(b) == SplitLinesAcc(UniversalNewlines(b), 1, <<>>, <<>>)

RECURSIVE LStrip(_)
LStrip(s) == IF s # <<>> /\ IsSpace(Head(s)) THEN LStrip(Tail(s)) ELSE s

RECURSIVE RStrip(_)
RStrip(s) ==
  IF s # <<>> /\ IsSpace(s[Len(s)]) THEN RStrip(SubSeq(s, 1, Len(s) - 1)) ELSE s

\* str.strip()
Strip(s) == RStrip(LStrip(s))

RECURSIVE SplitAcc(_, _, _, _)
SplitAcc(s, i, cur, acc) ==
  IF i > Len(s) THEN (IF cur = <<>> THEN acc ELSE Append(acc, cur))
  ELSE IF IsSpace(s[i])
       THEN SplitAcc(s, i + 1, <<>>, IF cur = <<>> THEN acc ELSE Append(acc, cur))
       ELSE SplitAcc(s, i + 1, Append(cur, s[i]), acc)

\* str.split() with no argument: the maximal runs of non-blank characters.
Split(s) == SplitAcc(s, 1, <<>>, <<>>)

\* os.linesep of the platform the script runs on (a POSIX shebang).
os_linesep == <<"\n">>

RECURSIVE TextWrite(_)
\* The bytes a text-mode handle opened with "w" stores for write(s): every
\* "\n" becomes os.linesep.
TextWrite(s) ==
  IF s = <<>> THEN <<>>
  ELSE (IF Head(s) = "\n" THEN os_linesep ELSE <<Head(s)>>) \o TextWrite(Tail(s))

\* ---------------------------------------------------------- Mapping Loader

\* bin2contigs is a defaultdict(set): here the sequence of its items in key
\* insertion order, each [bin |-> token, contigs |-> set of tokens].
BinIndex(b2c, bin) ==
  IF \E i \in 1..Len(b2c) : b2c[i].bin = bin
  THEN CHOOSE i \in 1..Len(b2c) : b2c[i].bin = bin
  ELSE 0

\* bin2contigs[bin_name].add(contig)
AddContig(b2c, bin, contig) ==
  IF BinIndex(b2c, bin) = 0
  THEN Append(b2c, [bin |-> bin, contigs |-> {contig}])
  ELSE [b2c EXCEPT ![BinIndex(b2c, bin)].contigs = @ \cup {contig}]

\* One iteration of `for line in f` in load_bin_contig_map.
LoadLine(b2c, line) ==
  IF Strip(line) = <<>> THEN b2c
  ELSE LET parts == Split(Strip(line))
       IN IF Len(parts) < 2 THEN b2c
          ELSE AddContig(b2c, parts[1], parts[2])

RECURSIVE LoadLines(_, _, _)
LoadLines(lines, i, b2c) ==
  IF i > Len(lines) THEN b2c
  ELSE LoadLines(lines, i + 1, LoadLine(b2c, lines[i]))

\* The loader with the header line read as data.
load_keeping_header(tsv) == LoadLines(TextLines(tsv), 1, <<>>)

\* header = next(f, None) consumes line 1 whatever it holds; the loop starts
\* at line 2.
load_bin_contig_map(tsv) == LoadLines(TextLines(tsv), 2, <<>>)

\* `if bin2contigs is None`, which a loaded table never is.
MapIsNone(b2c) == FALSE

\* `if not bin2contigs`
MapIsEmpty(b2c) == Len(b2c) = 0

\* -------------------------------------------------------- Sequence Splitter

\* current_contig is None, or an id.
None == <<>>
Some(id) == <<id>>

RECURSIVE InvertFrom(_, _, _)
\* for bin_name, contigs in bin2contigs.items(): for c in contigs:
\*     contig_to_bins[c].append(bin_name)
\* The inner loop walks a set in an order the interpreter chooses; each c
\* gets bin_name appended exactly once, so the order does not show in the
\* result. contig_to_bins is a function from the ids seen to bin lists.
InvertFrom(b2c, i, c2b) ==
  IF i > Len(b2c) THEN c2b
  ELSE InvertFrom(b2c, i + 1,
         [c \in (DOMAIN c2b) \cup b2c[i].contigs |->
            LET old == IF c \in DOMAIN c2b THEN c2b[c] ELSE <<>>
            IN IF c \in b2c[i].contigs THEN Append(old, b2c[i].bin) ELSE old])

InvertMap(b2c) == InvertFrom(b2c, 1, <<>>)

\* line.startswith(">")
IsMarker(line) == line # <<>> /\ Head(line) = ">"

\* line[1:].strip().split()
IdParts(line) == Split(Strip(Tail(line)))

\* The handle is opened at every flush, whether the registry holds one or not.
AlwaysOpen(bin, ws) == TRUE

\* `if bin_name not in writers`
NeedsOpen(bin, ws) == bin \notin DOMAIN ws

\* open(path, "a"): a file that exists keeps its content.
OpenAppend(fs, bin) == IF bin \in DOMAIN fs THEN fs ELSE fs @@ (bin :> <<>>)

\* open(outdir / f"{bin_name}.fasta", "w"): the file is created, or cut to
\* length 0 when it exists. The directory is a function from the bin whose
\* name the file carries to the file's bytes.
OpenTruncate(fs, bin) == [b \in (DOMAIN fs) \cup {bin} |-> IF b = bin THEN <<>> ELSE fs[b]]

\* f">{current_contig}\n"
MarkerLine(id) == <<">">> \o id \o <<"\n">>

\* Lookup in a dict modelled as a function, with a default for a missing key.
Get(f, k, default) == IF k \in DOMAIN f THEN f[k] ELSE default

\* f with f[k] = v, k added to the domain when it is new.
Put(f, k, v) == [x \in (DOMAIN f) \cup {k} |-> IF x = k THEN v ELSE f[x]]

\* What a flush touches: the output directory, the writer registry and the
\* record of the calls made on it.
\*   files    bin -> bytes of <outdir>/<bin>.fasta, for the files that exist
\*   writers  bin -> "open" | "closed", the state of the handle held for bin
\*   nOpen    bin -> number of open() calls of this run for the bin's file
\*   written  bin -> the arguments of the write() calls made for the bin
\*   bad      a write() reached a handle that was not open
\* writers[bin_name].write(s)
WriteTo(w, bin, s) ==
  IF Get(w.writers, bin, "none") = "open"
  THEN [w EXCEPT !.files = Put(@, bin, @[bin] \o TextWrite(s)),
                 !.written = Put(@, bin, Append(Get(@, bin, <<>>), s))]
  ELSE [w EXCEPT !.bad = TRUE]

\* The body of `for bin_name in contig_to_bins[current_contig]`.
FlushBin(w, bin, id, buf) ==
  LET w1 == IF NeedsOpen(bin, w.writers)
            THEN [w EXCEPT !.files = OpenTruncate(@, bin),
                           !.writers = Put(@, bin, "open"),
                           !.nOpen = Put(@, bin, Get(@, bin, 0) + 1)]
            ELSE w
      w2 == WriteTo(w1, bin, MarkerLine(id))
  IN WriteTo(w2, bin, Concat(buf))

RECURSIVE FlushBins(_, _, _, _, _)
FlushBins(w, bins, i, id, buf) ==
  IF i > Len(bins) THEN w
  ELSE FlushBins(FlushBin(w, bins[i], id, buf), bins, i + 1, id, buf)

\* The bins a flush of id writes to, were the lookup to stop at the first.
FirstOwnerOnly(c2b, id) == IF id \in DOMAIN c2b THEN SubSeq(c2b[id], 1, 1) ELSE <<>>

\* The lookup made with a key of the table that need not be the record's id.
OwnersOfAnyKey(c2b, id) ==
  IF DOMAIN c2b = {} THEN <<>> ELSE c2b[CHOOSE c \in DOMAIN c2b : TRUE]

\* `if current_contig in contig_to_bins: for bin_name in contig_to_bins[...]`
Owners(c2b, id) == IF id \in DOMAIN c2b THEN c2b[id] ELSE <<>>

\* A flush that skips an id some bin was already sent.
FlushDedup(w, cur, buf, c2b) ==
  IF cur = None THEN w
  ELSE IF \E b \in DOMAIN w.written :
            \E k \in 1..Len(w.written[b]) : w.written[b][k] = MarkerLine(cur[1])
       THEN w
       ELSE FlushBins(w, Owners(c2b, cur[1]), 1, cur[1], buf)

\* flush(): nothing when current_contig is None.
Flush(w, cur, buf, c2b) ==
  IF cur = None THEN w
  ELSE FlushBins(w, Owners(c2b, cur[1]), 1, cur[1], buf)

\* ------------------------------------------------------------------ inputs

SeqsUpTo(S, n) == UNION {[1..k -> S] : k \in 0..n}

\* The pieces assembly files are put together from: marker lines of id a and
\* of id b (with an annotation), a marker line with no token, body lines
\* ending in LF and in CRLF, and a body piece with no terminator (last line
\* of a file, or the head of the line the next piece completes).
AssemblyChunks ==
  { <<">", "a", "\n">>,
    <<">", "b", " ", "x", "\n">>,
    <<">", "\n">>,
    <<"G", "\n">>,
    <<"T", "\r", "\n">>,
    <<"C">> }

Assemblies == {Concat(s) : s \in SeqsUpTo(AssemblyChunks, MaxLines)}

MapHeader == <<"b", "i", "n", "\t", "c", "t", "g", "\n">>
RowAa == <<"A", "\t", "a", "\n">>
RowBa == <<"B", "\t", "a", "\n">>
RowAb == <<"A", "\t", "b", "\n">>
RowBb == <<"B", "\t", "b", "\n">>
RowBc == <<"B", "\t", "c", "\n">>

\* The mapping files of the runs: a table with a bin whose id is in no
\* assembly (A: a / B: c), one id in two bins (B: a / A: a), the table
\* A: a, b / B: b, a header only, and a data row where the header belongs.
RunMaps ==
  { MapHeader \o RowAa \o RowBc,
    MapHeader \o RowBa \o RowAa,
    MapHeader \o RowAa \o RowAb \o RowBb,
    MapHeader,
    RowAa }

\* The pieces the loader's mapping files are put together from: a plain
\* row, a row with a tab and CRLF, a row with a third field, a row with one
\* field, a blank line, and a row with no terminator.
MapChunks ==
  { <<"A", " ", "a", "\n">>,
    <<"B", "\t", "a", "\r", "\n">>,
    <<"A", " ", "b", " ", "x", "\n">>,
    <<"B", "\n">>,
    <<" ", "\n">>,
    <<"B", " ", "b">> }

LoaderMaps == {Concat(s) : s \in SeqsUpTo(MapChunks, MaxMapLines)}

\* ------------------------------------------------------------------- state

VARIABLES
  assemblyExists,  \* Path(args.assembly).exists()
  mapExists,       \* Path(args.map).exists()
  assembly,        \* bytes of the assembly file
  mapFile,         \* bytes of the mapping file
  pc,              \* where the process is
  exit,            \* <<>> while it runs, <<code>> once it has ended
  bin2contigs,
  contig_to_bins,
  lines,           \* the lines the open assembly stream yields
  pos,             \* index of the next line; 0: the stream was never opened
  current_contig,
  seq_buffer,
  writers,
  outdirExists,
  files,
  nOpen,
  nClose,          \* bin -> number of close() calls of this run
  written,
  badWrite,
  flushed,         \* the (id, buffer) pairs flush() ran on, in order
  outdirMade,      \* this run called mkdir
  run,             \* 1: first run, 2: second run on the same inputs
  fresh,           \* the second run got a new output directory
  firstOut         \* the output files the first run left

vars == <<assemblyExists, mapExists, assembly, mapFile, pc, exit, bin2contigs,
          contig_to_bins, lines, pos, current_contig, seq_buffer, writers,
          outdirExists, files, nOpen, nClose, written, badWrite, flushed,
          outdirMade, run, fresh, firstOut>>

inputs == <<assemblyExists, mapExists, assembly, mapFile>>
locals == <<bin2contigs, contig_to_bins, lines, pos, current_contig, seq_buffer>>
outputs == <<writers, files, nOpen, written, badWrite, flushed>>
runvars == <<run, fresh, firstOut>>

\* A process at its first instruction.
ProcessStart ==
  /\ pc = "start"
  /\ exit = <<>>
  /\ bin2contigs = <<>>
  /\ contig_to_bins = <<>>
  /\ lines = <<>>
  /\ pos = 0
  /\ current_contig = None
  /\ seq_buffer = <<>>
  /\ writers = <<>>
  /\ nOpen = <<>>
  /\ nClose = <<>>
  /\ written = <<>>
  /\ badWrite = FALSE
  /\ flushed = <<>>
  /\ outdirMade = FALSE

Init ==
  /\ \/ /\ assemblyExists = TRUE /\ mapExists = TRUE
        /\ assembly \in Assemblies /\ mapFile \in RunMaps
     \/ /\ assemblyExists = FALSE /\ mapExists \in BOOLEAN
        /\ assembly = <<>>
        /\ mapFile = IF mapExists THEN MapHeader \o RowAa ELSE <<>>
     \/ /\ assemblyExists = TRUE /\ mapExists = FALSE
        /\ assembly = <<">", "a", "\n">> /\ mapFile = <<>>
  /\ ProcessStart
  /\ outdirExists = FALSE
  /\ files = <<>>
  /\ run = 1 /\ fresh = FALSE /\ firstOut = <<>>

\* ----------------------------------------------------------------- actions

\* main, lines 88-91: both paths are looked up before anything is read.
CheckPaths ==
  /\ pc = "start"
  /\ IF ~assemblyExists \/ ~mapExists
     THEN pc' = "error" /\ exit' = <<1>>
     ELSE pc' = "load" /\ UNCHANGED exit
  /\ UNCHANGED <<inputs, locals, outputs, runvars, nClose, outdirExists, outdirMade>>

\* main, lines 93-95.
LoadMap ==
  /\ pc = "load"
  /\ bin2contigs' = load_bin_contig_map(mapFile)
  /\ IF MapIsEmpty(bin2contigs')
     THEN pc' = "error" /\ exit' = <<1>>
     ELSE pc' = "split" /\ UNCHANGED exit
  /\ UNCHANGED <<inputs, contig_to_bins, lines, pos, current_contig, seq_buffer,
                 outputs, runvars, nClose, outdirExists, outdirMade>>

\* A splitter that leaves the directory to whoever opens the first file.
MkdirLater(exists) == exists

\* outdir.mkdir(parents=True, exist_ok=True)
Mkdir(exists) == TRUE

\* split_fasta_by_bin, lines 29-55: the directory, the inverted index, the
\* parser's variables, and the assembly opened for reading.
SplitSetup ==
  /\ pc = "split"
  /\ outdirExists' = Mkdir(outdirExists)
  /\ outdirMade' = TRUE
  /\ writers' = <<>>
  /\ contig_to_bins' = InvertMap(bin2contigs)
  /\ current_contig' = None
  /\ seq_buffer' = <<>>
  /\ lines' = TextLines(assembly)
  /\ pos' = 1
  /\ pc' = "read"
  /\ UNCHANGED <<inputs, bin2contigs, files, nOpen, nClose, written, badWrite,
                 flushed, runvars, exit>>

TheWorld ==
  [files |-> files, writers |-> writers, nOpen |-> nOpen, written |-> written,
   bad |-> badWrite]

\* The state a call of flush() leaves.
AfterFlush ==
  LET w == Flush(TheWorld, current_contig, seq_buffer, contig_to_bins)
  IN /\ files' = w.files
     /\ writers' = w.writers
     /\ nOpen' = w.nOpen
     /\ written' = w.written
     /\ badWrite' = w.bad
     /\ flushed' = IF current_contig = None THEN flushed
                   ELSE Append(flushed, [id |-> current_contig[1], body |-> seq_buffer])

\* The buffer carried over into the next record.
KeepBuffer(buf) == buf

\* seq_buffer = []
NewBuffer(buf) == <<>>

\* One iteration of `for line in f`, lines 56-62. A marker line with no
\* token makes split()[0] raise IndexError after the flush has run; nothing
\* catches it and the process ends with the handles as they are.
ReadLine ==
  /\ pc = "read"
  /\ pos <= Len(lines)
  /\ LET line == lines[pos]
     IN IF IsMarker(line)
        THEN /\ AfterFlush
             /\ IF IdParts(line) = <<>>
                THEN /\ pc' = "crashed" /\ exit' = <<1>>
                     /\ UNCHANGED <<current_contig, seq_buffer, pos>>
                ELSE /\ current_contig' = Some(IdParts(line)[1])
                     /\ seq_buffer' = NewBuffer(seq_buffer)
                     /\ pos' = pos + 1
                     /\ UNCHANGED <<pc, exit>>
        ELSE /\ seq_buffer' = Append(seq_buffer, line)
             /\ pos' = pos + 1
             /\ UNCHANGED <<current_contig, outputs, pc, exit>>
  /\ UNCHANGED <<inputs, bin2contigs, contig_to_bins, lines, nClose, runvars,
                 outdirExists, outdirMade>>

\* Line 63: the stream is exhausted, the last record is flushed.
EndOfStream ==
  /\ pc = "read"
  /\ pos > Len(lines)
  /\ AfterFlush
  /\ pc' = "close"
  /\ UNCHANGED <<inputs, locals, nClose, runvars, outdirExists, outdirMade, exit>>

\* Lines 65-66: every handle of the registry is closed; main returns.
CloseWriters ==
  /\ pc = "close"
  /\ writers' = [b \in DOMAIN writers |-> "closed"]
  /\ nClose' = [b \in DOMAIN writers |-> Get(nClose, b, 0) + 1]
  /\ pc' = "done"
  /\ exit' = <<0>>
  /\ UNCHANGED <<inputs, locals, files, nOpen, written, badWrite, flushed,
                 runvars, outdirExists, outdirMade>>

\* The tool is started again on the same inputs, with a new output directory
\* or with the one the first run filled.
Rerun ==
  /\ pc = "done"
  /\ run = 1
  /\ run' = 2
  /\ firstOut' = files
  /\ fresh' \in BOOLEAN
  /\ IF fresh'
     THEN files' = <<>> /\ outdirExists' = FALSE
     ELSE UNCHANGED <<files, outdirExists>>
  /\ pc' = "start"
  /\ exit' = <<>>
  /\ bin2contigs' = <<>>
  /\ contig_to_bins' = <<>>
  /\ lines' = <<>>
  /\ pos' = 0
  /\ current_contig' = None
  /\ seq_buffer' = <<>>
  /\ writers' = <<>>
  /\ nOpen' = <<>>
  /\ nClose' = <<>>
  /\ written' = <<>>
  /\ badWrite' = FALSE
  /\ flushed' = <<>>
  /\ outdirMade' = FALSE
  /\ UNCHANGED inputs

Next ==
  \/ CheckPaths
  \/ LoadMap
  \/ SplitSetup
  \/ ReadLine
  \/ EndOfStream
  \/ CloseWriters
  \/ Rerun

Spec == Init /\ [][Next]_vars

\* The loader alone, on the mapping files of LoaderMaps.
InitLoader ==
  /\ assemblyExists = TRUE /\ mapExists = TRUE
  /\ assembly = <<">", "a", "\n">>
  /\ mapFile \in LoaderMaps
  /\ ProcessStart
  /\ outdirExists = FALSE
  /\ files = <<>>
  /\ run = 1 /\ fresh = FALSE /\ firstOut = <<>>

NextLoader == CheckPaths \/ LoadMap

SpecLoader == InitLoader /\ [][NextLoader]_vars

\* ------------------------------------------- reference notions of the claims

\* The (bin, id) associations of a mapping file as the specification words
\* them: every line after the first with at least two whitespace-separated
\* fields gives (field 1, field 2).
RefPairs(tsv) ==
  LET L == TextLines(tsv)
  IN {<<Split(L[i])[1], Split(L[i])[2]>> :
        i \in {j \in 2..Len(L) : Len(Split(L[j])) >= 2}}

PairsOf(b2c) ==
  UNION {{<<b2c[i].bin, c>> : c \in b2c[i].contigs} : i \in 1..Len(b2c)}

RefBins == {p[1] : p \in RefPairs(mapFile)}

Owns(bin, id) == <<bin, id>> \in RefPairs(mapFile)

\* The first whitespace-delimited token after the marker character, <<>>
\* when there is none.
RefId(line) ==
  LET parts == Split(Tail(line)) IN IF parts = <<>> THEN <<>> ELSE parts[1]

StartsRecord(line) == line # <<>> /\ line[1] = ">"

\* Number of body lines that follow the marker line L[1].
BodyLen(L) ==
  IF \E j \in 2..Len(L) : StartsRecord(L[j])
  THEN (CHOOSE j \in 2..Len(L) :
          StartsRecord(L[j]) /\ \A k \in 2..(j - 1) : ~StartsRecord(L[k])) - 2
  ELSE Len(L) - 1

RECURSIVE RefRecords(_)
\* The records of a list of lines: a marker line opens one, the lines up to
\* the next marker line are its body; lines before the first marker line
\* belong to no record.
RefRecords(L) ==
  IF L = <<>> THEN <<>>
  ELSE IF StartsRecord(L[1])
       THEN <<[id |-> RefId(L[1]), body |-> SubSeq(L, 2, 1 + BodyLen(L))]>>
            \o RefRecords(SubSeq(L, 2 + BodyLen(L), Len(L)))
       ELSE RefRecords(Tail(L))

\* The bytes of a file cut after every LF, nothing translated.
RawLines(b) == SplitLinesAcc(b, 1, <<>>, <<>>)

FileOf(bin) == Get(files, bin, <<>>)

Loaded == pc \notin {"start", "load"}

\* ------------------------------------------------------------------ claims

\* C4: once the loader has run, its result holds exactly the (bin, id)
\* pairs of the lines after the first that split into at least two fields
\* (field 1 the bin, field 2 the id; the first line never contributes, short
\* and blank lines contribute nothing, later fields are ignored, repeated
\* rows count once), each bin is one key, and no key has an empty set.
C4_LoaderMatchesReference ==
  Loaded =>
    /\ PairsOf(bin2contigs) = RefPairs(mapFile)
    /\ \A i, j \in 1..Len(bin2contigs) :
         bin2contigs[i].bin = bin2contigs[j].bin => i = j
    /\ \A i \in 1..Len(bin2contigs) : bin2contigs[i].contigs # {}

\* A loaded table from a file whose first line reads as a data row that the
\* result lacks, with a three-field row that the result has.
C4_Witness ==
  /\ Loaded
  /\ LET L == TextLines(mapFile)
     IN /\ Len(L) >= 2
        /\ Len(Split(L[1])) >= 2
        /\ <<Split(L[1])[1], Split(L[1])[2]>> \notin PairsOf(bin2contigs)
        /\ \E i \in 2..Len(L) :
             /\ Len(Split(L[i])) = 3
             /\ <<Split(L[i])[1], Split(L[i])[2]>> \in PairsOf(bin2contigs)

InvalidInputs ==
  \/ ~assemblyExists
  \/ ~mapExists
  \/ RefPairs(mapFile) = {}

\* C5: with a missing assembly, a missing mapping file or a mapping file
\* with no valid row, the process never gets past the checks of main: it
\* ends in the error state with exit code 1, mkdir was never called, no
\* output file exists or was opened or written, and the assembly stream was
\* never opened; the mapping file is read only when both paths exist.
C5_InvalidInputsAbortEarly ==
  InvalidInputs =>
    /\ pc \in {"start", "load", "error"}
    /\ pc = "load" => assemblyExists /\ mapExists
    /\ pc = "error" => exit = <<1>>
    /\ pc # "error" => exit = <<>>
    /\ ~outdirMade /\ ~outdirExists
    /\ DOMAIN files = {} /\ DOMAIN nOpen = {} /\ DOMAIN written = {}
    /\ pos = 0

\* The run that ended in error on a mapping file with a header only.
C5_Witness ==
  /\ pc = "error"
  /\ assemblyExists /\ mapExists
  /\ mapFile = MapHeader
  /\ assembly # <<>>

\* The output files this run made: the files of the directory, less those a
\* reused directory already held, plus every file this run opened.
CreatedThisRun ==
  ((DOMAIN files) \ (IF run = 2 /\ ~fresh THEN DOMAIN firstOut ELSE {}))
    \cup DOMAIN nOpen

FlushedIds == {flushed[i].id : i \in 1..Len(flushed)}

\* C6: at every point of a run, each output file made so far belongs to a
\* bin that the mapping gives the id of some record already flushed, and no
\* write call for any bin carries the marker line of a flushed id that the
\* mapping does not give to that bin.
C6_FilesOnlyForFlushedOwnedRecords ==
  /\ \A bin \in CreatedThisRun : \E id \in FlushedIds : Owns(bin, id)
  /\ \A bin \in DOMAIN written : \A id \in FlushedIds :
       (\E k \in 1..Len(written[bin]) : written[bin][k] = <<">">> \o id \o <<"\n">>)
         => Owns(bin, id)

\* A finished run that flushed a record no bin owns, made a file, and left a
\* bin of the mapping without one.
C6_Witness ==
  /\ pc = "done"
  /\ \E id \in FlushedIds : \A bin \in RefBins : ~Owns(bin, id)
  /\ CreatedThisRun # {}
  /\ \E bin \in RefBins : bin \notin DOMAIN files

NoMarkerFile ==
  \A i \in 1..Len(TextLines(assembly)) : ~StartsRecord(TextLines(assembly)[i])

\* C7: when both inputs exist, the mapping has a valid row and no line of
\* the assembly starts with the marker (the empty file included), the run
\* neither exits in error nor crashes, the output directory exists from the
\* splitter's setup on, no output file is ever made, opened or written, and
\* the run ends with exit code 0.
C7_NoMarkerNoFiles ==
  (~InvalidInputs /\ NoMarkerFile) =>
    /\ pc \notin {"error", "crashed"}
    /\ pc \in {"read", "close", "done"} => outdirExists
    /\ pc = "done" => exit = <<0>>
    /\ pc # "done" => exit = <<>>
    /\ DOMAIN files = {} /\ DOMAIN nOpen = {} /\ DOMAIN written = {}
    /\ flushed = <<>>

\* A finished first run over an assembly of body lines only, all of them
\* read while no record was current.
C7_Witness ==
  /\ pc = "done" /\ run = 1
  /\ NoMarkerFile
  /\ Len(lines) >= 2
  /\ seq_buffer = lines

\* C8: a second run on the same inputs that has completed leaves exactly
\* the files, byte for byte, that the first run left, in a new output
\* directory and in the first run's directory alike.
C8_SecondRunSameFiles ==
  (run = 2 /\ pc = "done") => files = firstOut

\* A second run that completed in the first run's directory, which held a
\* file with a record body.
C8_Witness ==
  /\ run = 2 /\ pc = "done" /\ ~fresh
  /\ \E bin \in DOMAIN firstOut : Len(firstOut[bin]) > 4

\* C9: a run that ended without completing (an error exit or a crash) has
\* opened no output file and written nothing, and a run that completed has
\* closed every handle.
C9_AbortOnlyBeforeWriting ==
  /\ pc \in {"error", "crashed"} => (DOMAIN nOpen = {} /\ DOMAIN written = {})
  /\ pc = "done" => \A bin \in DOMAIN writers : writers[bin] = "closed"

MarkerCount ==
  Cardinality({i \in 1..Len(lines) : StartsRecord(lines[i])})

\* C10: in every state of a run each bin's file has been opened at most
\* once, the registry holds exactly the opened bins, no write reached a
\* handle that was not open, each opened file holds every write made for
\* its bin in order, no handle is closed before the process is done, and
\* when it is done every record has been flushed and every opened handle is
\* closed, by exactly one close call.
C10_WriterLifecycle ==
  /\ \A bin \in DOMAIN nOpen : nOpen[bin] = 1
  /\ DOMAIN writers = DOMAIN nOpen
  /\ DOMAIN written = DOMAIN nOpen
  /\ ~badWrite
  /\ \A bin \in DOMAIN nOpen : files[bin] = Concat(written[bin])
  /\ pc # "done" =>
       /\ DOMAIN nClose = {}
       /\ \A bin \in DOMAIN writers : writers[bin] = "open"
  /\ pc = "done" =>
       /\ Len(flushed) = MarkerCount
       /\ DOMAIN nClose = DOMAIN nOpen
       /\ \A bin \in DOMAIN nOpen : writers[bin] = "closed" /\ nClose[bin] = 1

\* A finished run with two handles, one of which took two records.
C10_Witness ==
  /\ pc = "done"
  /\ Cardinality(DOMAIN nOpen) = 2
  /\ \E bin \in DOMAIN written : Len(written[bin]) >= 4

RECURSIVE WritesFor(_, _)
\* The write calls the claim expects for a bin after the flushes recs: for
\* each record whose id the mapping gives to the bin, in order, the marker
\* line made of the id alone and then the whole buffer as one string.
WritesFor(bin, recs) ==
  IF recs = <<>> THEN <<>>
  ELSE (IF Owns(bin, Head(recs).id)
        THEN <<(<<">">> \o Head(recs).id \o <<"\n">>), Concat(Head(recs).body)>>
        ELSE <<>>)
       \o WritesFor(bin, Tail(recs))

\* The marker lines of the assembly, in order, as the program reads them.
MarkerLines == SelectSeq(TextLines(assembly), StartsRecord)

\* C2: at every point of a run, the write calls made for each bin are, for
\* each flushed record the mapping gives to that bin and in flush order,
\* the line '>' + id + newline followed by the complete buffer, where id is
\* the first token of the record's marker line; so a record of several bins
\* is written whole and alike for each of them.
C2_EveryOwnerGetsFullCopy ==
  /\ \A i \in 1..Len(flushed) : flushed[i].id = RefId(MarkerLines[i])
  /\ \A bin \in RefBins \cup DOMAIN written :
       Get(written, bin, <<>>) = WritesFor(bin, flushed)

\* A flushed record with an annotated marker line and a body whose id is in
\* two bins, both of which hold its marker line and body.
C2_Witness ==
  \E i \in 1..Len(flushed) :
    /\ flushed[i].body # <<>>
    /\ MarkerLines[i] # <<">">> \o flushed[i].id \o <<"\n">>
    /\ Cardinality({bin \in RefBins : Owns(bin, flushed[i].id)}) = 2
    /\ \A bin \in RefBins :
         /\ bin \in DOMAIN files
         /\ files[bin] = <<">">> \o flushed[i].id \o <<"\n">> \o Concat(flushed[i].body)

OwnedBy(bin, recs) == SelectSeq(recs, LAMBDA r : Owns(bin, r.id))

\* C3: after a completed run, for every bin of the mapping and every file
\* of the directory, the records of <bin>.fasta are the records of the
\* assembly whose id the mapping gives to the bin, each occurrence with its
\* own body lines, in the assembly's order (an absent file counts as empty).
C3_BinFileIsSourceSubsequence ==
  pc = "done" =>
    \A bin \in RefBins \cup DOMAIN files :
      RefRecords(TextLines(FileOf(bin)))
        = OwnedBy(bin, RefRecords(TextLines(assembly)))

\* A completed run whose assembly repeats an id with different bodies, the
\* bin's file holding both occurrences.
C3_Witness ==
  /\ pc = "done"
  /\ \E bin \in DOMAIN files :
       LET out == RefRecords(TextLines(files[bin]))
       IN /\ Len(out) = 2
          /\ out[1].id = out[2].id
          /\ out[1].body # out[2].body

WithId(id, recs) == SelectSeq(recs, LAMBDA r : r.id = id)

====
